---- MODULE Spec2Model ----
(***************************************************************************)
(* A model of rnaseq_spectral_pre_processing.py: the merge of a fieldbook, *)
(* an expression matrix and a reflectance matrix into one table per        *)
(* (entry, treatment), and the parallel export of one file per transcript. *)
(*                                                                         *)
(* Strings are sequences of atomic pieces (a sample name is the sequence   *)
(* of its '_'-separated tokens, a plot label the sequence of its digits),  *)
(* a cell is a number (a fraction in lowest terms), a string or NaN, and a *)
(* DataFrame is an index (level names), a column list and a row sequence.  *)
(***************************************************************************)
EXTENDS Integers, Sequences, FiniteSets, TLC

\* ------------------------------------------------------------------ cells
NaN == [kind |-> "nan", num |-> 0, den |-> 1, str |-> <<>>]

Abs(x) == IF x < 0 THEN 0 - x ELSE x

RECURSIVE GCD(_, _)
GCD(a, b) == IF b = 0 THEN a ELSE GCD(b, a % b)

\* the number n/d (d > 0), in lowest terms
Rat(n, d) ==
  LET g == GCD(Abs(n), d)
  IN  [kind |-> "num", num |-> n \div g, den |-> d \div g, str |-> <<>>]

Num(n) == Rat(n, 1)

Str(s) == [kind |-> "str", num |-> 0, den |-> 1, str |-> s]

IsNa(v) == v.kind = "nan"

DigitChars == <<"0", "1", "2", "3", "4", "5", "6", "7", "8", "9">>

\* str(n) for a natural n: its decimal digits
RECURSIVE Digits(_)
Digits(n) ==
  IF n < 10 THEN <<DigitChars[n + 1]>>
  ELSE Digits(n \div 10) \o <<DigitChars[(n % 10) + 1]>>

\* the label a cell contributes when an axis is made of it
ToLabel(v) == IF v.kind = "str" THEN v.str ELSE Digits(v.num \div v.den)

\* ------------------------------------------------------------ sequences
RECURSIVE Flatten(_)
Flatten(ss) == IF ss = <<>> THEN <<>> ELSE Head(ss) \o Flatten(Tail(ss))

Contains(s, x) == \E i \in 1..Len(s) : s[i] = x

\* the positions from i on at which the flag sequence holds, in order
RECURSIVE PositionsFrom(_, _)
PositionsFrom(flags, i) ==
  IF i > Len(flags) THEN <<>>
  ELSE (IF flags[i] THEN <<i>> ELSE <<>>) \o PositionsFrom(flags, i + 1)

\* ------------------------------------------------------------ DataFrames
ColPos(cols, name) ==
  CHOOSE i \in 1..Len(cols) : cols[i] = name /\ \A j \in 1..(i - 1) : cols[j] # name

Cell(df, row, name) == row.val[ColPos(df.columns, name)]

DataFrame(index, columns, rows) == [index |-> index, columns |-> columns, rows |-> rows]

\* DataFrame.set_index(names): the named columns become the index; the old index is dropped
set_index(df, names) ==
  LET keep == PositionsFrom([j \in 1..Len(df.columns) |-> ~Contains(names, df.columns[j])], 1)
  IN  DataFrame(names,
                [j \in 1..Len(keep) |-> df.columns[keep[j]]],
                [i \in 1..Len(df.rows) |->
                   [key |-> [k \in 1..Len(names) |-> Cell(df, df.rows[i], names[k])],
                    val |-> [j \in 1..Len(keep) |-> df.rows[i].val[keep[j]]]]])

\* DataFrame.reset_index(): the index levels become the first columns (an unnamed
\* level is called 'index'); a default index becomes a column of row numbers
reset_index(df) ==
  LET names == IF df.index = <<>> THEN << <<"index">> >>
               ELSE [k \in 1..Len(df.index) |->
                       IF df.index[k] = <<>> THEN <<"index">> ELSE df.index[k]]
  IN  DataFrame(<<>>, names \o df.columns,
                [i \in 1..Len(df.rows) |->
                   [key |-> <<>>,
                    val |-> (IF df.index = <<>> THEN <<Num(i - 1)>> ELSE df.rows[i].key)
                            \o df.rows[i].val]])

\* DataFrame.rename(columns={old: new})
rename(df, old, new) ==
  [df EXCEPT !.columns = [j \in 1..Len(df.columns) |->
                            IF df.columns[j] = old THEN new ELSE df.columns[j]]]

\* DataFrame.T of a frame with a one-level index: each column becomes a row keyed by
\* its name, each row a column labelled by its key; the new index has no name
Transpose(df) ==
  DataFrame(<< <<>> >>,
            [i \in 1..Len(df.rows) |-> ToLabel(df.rows[i].key[1])],
            [j \in 1..Len(df.columns) |->
               [key |-> <<Str(df.columns[j])>>,
                val |-> [i \in 1..Len(df.rows) |-> df.rows[i].val[j]]]])

\* DataFrame.dropna(subset=names): the rows with no NaN in the named columns
dropna(df, names) ==
  [df EXCEPT !.rows = SelectSeq(df.rows,
     LAMBDA r : \A k \in 1..Len(names) : ~IsNa(Cell(df, r, names[k])))]

\* df[column_list]
select(df, names) ==
  [df EXCEPT !.columns = names,
             !.rows = [i \in 1..Len(df.rows) |->
                         [key |-> df.rows[i].key,
                          val |-> [k \in 1..Len(names) |-> Cell(df, df.rows[i], names[k])]]]]

\* df[df[name].isin(values)]
isin_filter(df, name, values) ==
  [df EXCEPT !.rows = SelectSeq(df.rows, LAMBDA r : Cell(df, r, name) \in values)]

\* the join with how='inner': only the rows of df1 that have a match
join_inner(df1, df2) ==
  LET rowsFor(r) ==
        LET m == SelectSeq(df2.rows, LAMBDA s : s.key = r.key)
        IN  [i \in 1..Len(m) |-> [key |-> r.key, val |-> r.val \o m[i].val]]
  IN  DataFrame(df1.index, df1.columns \o df2.columns,
                Flatten([i \in 1..Len(df1.rows) |-> rowsFor(df1.rows[i])]))

\* the join with how='outer': the left join, then the rows only df2 has
join_outer(df1, df2) ==
  LET nans1 == [j \in 1..Len(df1.columns) |-> NaN]
      nans2 == [j \in 1..Len(df2.columns) |-> NaN]
      rowsFor(r) ==
        LET m == SelectSeq(df2.rows, LAMBDA s : s.key = r.key)
        IN  IF m = <<>> THEN <<[key |-> r.key, val |-> r.val \o nans2]>>
            ELSE [i \in 1..Len(m) |-> [key |-> r.key, val |-> r.val \o m[i].val]]
      only2 == SelectSeq(df2.rows, LAMBDA s : \A i \in 1..Len(df1.rows) : df1.rows[i].key # s.key)
  IN  DataFrame(df1.index, df1.columns \o df2.columns,
                Flatten([i \in 1..Len(df1.rows) |-> rowsFor(df1.rows[i])])
                \o [i \in 1..Len(only2) |-> [key |-> only2[i].key, val |-> nans1 \o only2[i].val]])

\* DataFrame.join(other): pandas' default how='left' on the index. Every row of df1
\* is kept, once per row of df2 with the same key, or once with NaN when there is none
join(df1, df2) ==
  LET nans == [j \in 1..Len(df2.columns) |-> NaN]
      rowsFor(r) ==
        LET m == SelectSeq(df2.rows, LAMBDA s : s.key = r.key)
        IN  IF m = <<>> THEN <<[key |-> r.key, val |-> r.val \o nans]>>
            ELSE [i \in 1..Len(m) |-> [key |-> r.key, val |-> r.val \o m[i].val]]
  IN  DataFrame(df1.index, df1.columns \o df2.columns,
                Flatten([i \in 1..Len(df1.rows) |-> rowsFor(df1.rows[i])]))

\* ------------------------------------------------------------- ordering
\* the pieces strings are made of, in ASCII order
Alphabet ==
  <<".", "0", "1", "2", "3", "4", "5", "6", "7", "8", "9", "00000.asd", "A", "B", "C",
    "Cotton", "Gene", "Gh_", "Gohir.", "Lambda", "Ref", "WL", "WW", "_",
    "entry", "index", "p", "plot", "treatment">>

Rank(piece) == CHOOSE i \in 1..Len(Alphabet) : Alphabet[i] = piece

RECURSIVE LexLess(_, _)
LexLess(s, t) ==
  IF t = <<>> THEN FALSE
  ELSE IF s = <<>> THEN TRUE
  ELSE IF Head(s) = Head(t) THEN LexLess(Tail(s), Tail(t))
  ELSE Rank(Head(s)) < Rank(Head(t))

\* the order of two non-NaN cells: numbers by value, strings lexicographically
ValLess(a, b) ==
  IF a.kind = "num" /\ b.kind = "num" THEN a.num * b.den < b.num * a.den
  ELSE IF a.kind = "str" /\ b.kind = "str" THEN LexLess(a.str, b.str)
  ELSE a.kind = "num"

RECURSIVE KeyLess(_, _)
KeyLess(k1, k2) ==
  IF k1 = <<>> \/ k2 = <<>> THEN FALSE
  ELSE IF Head(k1) = Head(k2) THEN KeyLess(Tail(k1), Tail(k2))
  ELSE ValLess(Head(k1), Head(k2))

\* the keys of a set, ascending
RECURSIVE SortKeys(_)
SortKeys(S) ==
  IF S = {} THEN <<>>
  ELSE LET m == CHOOSE x \in S : \A y \in S \ {x} : KeyLess(x, y)
       IN  <<m>> \o SortKeys(S \ {m})

\* a sequence of numbers, ascending
RECURSIVE SortVals(_)
SortVals(vs) ==
  IF vs = <<>> THEN <<>>
  ELSE LET i == CHOOSE i \in 1..Len(vs) : \A j \in 1..Len(vs) : ~ValLess(vs[j], vs[i])
       IN  <<vs[i]>> \o SortVals(SubSeq(vs, 1, i - 1) \o SubSeq(vs, i + 1, Len(vs)))

\* ---------------------------------------------------------- aggregation
AddRat(a, b) == Rat(a.num * b.den + b.num * a.den, a.den * b.den)

RECURSIVE SumVals(_)
SumVals(vs) == IF vs = <<>> THEN Num(0) ELSE AddRat(Head(vs), SumVals(Tail(vs)))

\* Series.median(): NaN skipped; the middle value, or the mean of the two middle ones
Median(vs) ==
  LET s == SortVals(SelectSeq(vs, LAMBDA v : ~IsNa(v)))
      n == Len(s)
  IN  IF n = 0 THEN NaN
      ELSE IF n % 2 = 1 THEN s[(n + 1) \div 2]
      ELSE LET t == AddRat(s[n \div 2], s[(n \div 2) + 1]) IN Rat(t.num, t.den * 2)

\* a mean that counts the NaN rows in the divisor
MeanOverAllRows(vs) ==
  LET s == SelectSeq(vs, LAMBDA v : ~IsNa(v))
      t == SumVals(s)
  IN  IF s = <<>> THEN NaN ELSE Rat(t.num, t.den * Len(vs))

\* Series.mean(): NaN skipped; NaN when nothing is left
Mean(vs) ==
  LET s == SelectSeq(vs, LAMBDA v : ~IsNa(v))
      t == SumVals(s)
  IN  IF s = <<>> THEN NaN ELSE Rat(t.num, t.den * Len(s))

\* the key of a row under groupby(by)
GroupKey(df, r, by) == [k \in 1..Len(by) |-> Cell(df, r, by[k])]

\* the columns groupby(by).mean() / .median() aggregates: those left of `by` that
\* hold no string (pandas drops the others)
NumericCols(df, by) ==
  PositionsFrom([j \in 1..Len(df.columns) |->
                   /\ ~Contains(by, df.columns[j])
                   /\ \A i \in 1..Len(df.rows) : df.rows[i].val[j].kind # "str"], 1)

\* DataFrame.groupby(by=by).<stat>(): rows with a NaN key are left out, one row per
\* distinct key, keys ascending, each numeric column aggregated over the group
groupby(df, by, stat) ==
  LET rows == SelectSeq(df.rows,
                LAMBDA r : \A k \in 1..Len(by) : ~IsNa(GroupKey(df, r, by)[k]))
      keys == SortKeys({GroupKey(df, rows[i], by) : i \in 1..Len(rows)})
      cols == NumericCols(df, by)
      group(key) == SelectSeq(rows, LAMBDA r : GroupKey(df, r, by) = key)
      column(g, j) == [i \in 1..Len(g) |-> g[i].val[j]]
  IN  DataFrame(by,
                [c \in 1..Len(cols) |-> df.columns[cols[c]]],
                [n \in 1..Len(keys) |->
                   [key |-> keys[n],
                    val |-> [c \in 1..Len(cols) |->
                               IF stat = "mean" THEN Mean(column(group(keys[n]), cols[c]))
                               ELSE Median(column(group(keys[n]), cols[c]))]]])

\* DataFrame.convert_dtypes(): every column gets its best nullable dtype; the
\* numbers are the same numbers and NaN stays missing
convert_dtypes(df) ==
  [df EXCEPT !.rows = [i \in 1..Len(df.rows) |->
     [key |-> df.rows[i].key,
      val |-> [j \in 1..Len(df.columns) |->
                 LET v == df.rows[i].val[j]
                 IN  IF v.kind = "num" THEN Rat(v.num, v.den) ELSE v]]]]

\* join_dataframes(df1, df2, convert_dtypes, groupby_list, stat); groupby_list None is <<>>
join_dataframes(df1, df2, convert, groupby_list, stat) ==
  LET joined_df == reset_index(join(df1, df2))
      converted == IF convert THEN convert_dtypes(joined_df) ELSE joined_df
  IN  IF groupby_list # <<>>
      THEN (IF stat = "mean" THEN groupby(converted, groupby_list, "mean")
            ELSE groupby(converted, groupby_list, "median"))
      ELSE converted

\* --------------------------------------------------------------- strings
PLOT == <<"plot">>
ENTRY == <<"entry">>
TREATMENT == <<"treatment">>
GENE == <<"Gene">>
LAMBDA_COL == <<"Lambda">>
INDEX == <<"index">>

FirstPos(s, x) == CHOOSE i \in 1..Len(s) : s[i] = x /\ \A j \in 1..(i - 1) : s[j] # x

\* str.split(sep)
RECURSIVE Split(_, _)
Split(s, sep) ==
  IF ~Contains(s, sep) THEN <<s>>
  ELSE LET i == FirstPos(s, sep)
       IN  <<SubSeq(s, 1, i - 1)>> \o Split(SubSeq(s, i + 1, Len(s)), sep)

\* sep.join(tokens)
RECURSIVE JoinWith(_, _)
JoinWith(tokens, sep) ==
  IF tokens = <<>> THEN <<>>
  ELSE IF Len(tokens) = 1 THEN tokens[1]
  ELSE tokens[1] \o <<sep>> \o JoinWith(Tail(tokens), sep)

\* str.replace(old, new), old one piece and new a string
Replace(s, old, new) ==
  Flatten([i \in 1..Len(s) |-> IF s[i] = old THEN new ELSE <<s[i]>>])

\* ------------------------------------------------------------ the loaders
\* get_fieldbook_data(csv_path, index): rows without a plot are dropped, the plot
\* becomes str(int(plot)), and `index` becomes the index
get_fieldbook_data(csv, index) ==
  LET fb == dropna(csv, <<PLOT>>)
      p  == ColPos(fb.columns, PLOT)
      normalized ==
        [fb EXCEPT !.rows = [i \in 1..Len(fb.rows) |->
           [fb.rows[i] EXCEPT !.val[p] = Str(Digits(fb.rows[i].val[p].num \div fb.rows[i].val[p].den))]]]
  IN  set_index(normalized, <<index>>)

\* the scan columns of a reflectance table: those whose name contains 'Cotton'
CottonCols(df) == PositionsFrom([j \in 1..Len(df.columns) |-> Contains(df.columns[j], "Cotton")], 1)

\* the plot number with the 'p' left in
PlotNumberKeepsPrefix(column) == Replace(Split(column, "_")[2], "00000.asd", <<>>)

\* column.split('_')[1].replace('00000.asd', '').replace('p', '')
PlotNumber(column) == Replace(Replace(Split(column, "_")[2], "00000.asd", <<>>), "p", <<>>)

\* the list fix_plot_column builds: 'Lambda', then the plot number of every scan column
plot_number_columns(df) ==
  LET c == CottonCols(df)
  IN  <<LAMBDA_COL>> \o [k \in 1..Len(c) |-> PlotNumber(df.columns[c[k]])]

\* fix_plot_column raises: IndexError when a scan column's name has no '_', ValueError
\* when the list is not as long as the table is wide
fix_plot_column_raises(df) ==
  \/ \E j \in 1..Len(df.columns) :
       Contains(df.columns[j], "Cotton") /\ Len(Split(df.columns[j], "_")) < 2
  \/ Len(CottonCols(df)) + 1 # Len(df.columns)

\* fix_plot_column(df) when it does not raise: df.columns = plot_number_columns
fix_plot_column(df) == [df EXCEPT !.columns = plot_number_columns(df)]

\* get_rnaseq_data(csv_path, fb_path); rnaseq.tpm is 'TPM' in csv_path
get_rnaseq_data(rnaseq, fieldbook_csv) ==
  LET fb == get_fieldbook_data(fieldbook_csv, ENTRY)
      g  == ColPos(rnaseq.csv.columns, GENE)
      renamed ==
        [rnaseq.csv EXCEPT !.rows = [i \in 1..Len(rnaseq.csv.rows) |->
           [rnaseq.csv.rows[i] EXCEPT
              !.val[g] = Str(Replace(rnaseq.csv.rows[i].val[g].str, "Gohir.", <<"Gh_">>))]]]
      rna_df == set_index(rename(reset_index(Transpose(set_index(renamed, <<GENE>>))),
                                 INDEX, ENTRY), <<ENTRY>>)
      flat == reset_index(rna_df)
      e == ColPos(flat.columns, ENTRY)
      split ==
        DataFrame(flat.index, flat.columns \o <<TREATMENT>>,
          [i \in 1..Len(flat.rows) |->
             LET tokens == Split(flat.rows[i].val[e].str, "_")
                 n == Len(tokens)
             IN  [key |-> flat.rows[i].key,
                  val |-> [flat.rows[i].val EXCEPT
                             ![e] = Str(JoinWith(SubSeq(tokens, 1, n - 1), "_"))]
                          \o <<Str(JoinWith(SubSeq(tokens, n, n), "_"))>>]])
  IN  IF rnaseq.tpm
      THEN set_index(reset_index(join(set_index(reset_index(fb), <<ENTRY, TREATMENT>>),
                                      set_index(split, <<ENTRY, TREATMENT>>))),
                     <<PLOT>>)
      ELSE set_index(join_dataframes(fb, rna_df, TRUE, <<>>, "none"), <<PLOT>>)

\* get_spectral_data(csv_path, fb_path) when fix_plot_column does not raise:
\* <<spectra_df, spectra_fb, fb>>
get_spectral_data(spectral_csv, fieldbook_csv) ==
  LET fb == get_fieldbook_data(fieldbook_csv, PLOT)
      fixed == fix_plot_column(spectral_csv)
      spectra_df == set_index(rename(reset_index(Transpose(set_index(fixed, <<LAMBDA_COL>>))),
                                     INDEX, PLOT), <<PLOT>>)
  IN  <<spectra_df, join_dataframes(fb, spectra_df, TRUE, <<>>, "none"), fb>>

\* get_transcript_list(df, substring)
get_transcript_list(df, substring) ==
  LET t == PositionsFrom([j \in 1..Len(df.columns) |-> Contains(df.columns[j], substring)], 1)
  IN  [k \in 1..Len(t) |-> df.columns[t[k]]]

\* ------------------------------------------------------------ the export
WaveLo == 350
WaveHi == 2500
MidWaves == 1

\* range(350, 2501), of which the model keeps the first 1 + MidWaves wavelengths and the last
WaveRange == <<WaveLo>> \o [i \in 1..MidWaves |-> WaveLo + i] \o <<WaveHi>>

\* column_list of generate_save_transcript_csv: the transcript, then str(i) for each wavelength
column_list(transcript) == <<transcript>> \o [i \in 1..Len(WaveRange) |-> Digits(WaveRange[i])]

\* the rows kept when only the lower boundary is looked at
temp_data_lower_only(df, transcript) ==
  dropna(dropna(df, <<transcript>>), <<Digits(WaveLo)>>)

\* the rows generate_save_transcript_csv keeps: both dropna calls
temp_data(df, transcript) ==
  dropna(dropna(df, <<transcript>>), <<Digits(WaveLo), Digits(WaveHi)>>)

\* result of generate_save_transcript_csv: temp_data[column_list]
export_result(df, transcript) == select(temp_data(df, transcript), column_list(transcript))

\* a KeyError in generate_save_transcript_csv: a column of column_list is not in the table
export_raises(df, transcript) ==
  \E k \in 1..Len(column_list(transcript)) : ~Contains(df.columns, column_list(transcript)[k])

\* a file name that leaves the transcript out
out_file_family_only(transcript, tpm) ==
  IF tpm THEN <<"tpm_spectra.csv">> ELSE <<"logfc_spectra.csv">>

\* out_file: the transcript and the family suffix, in out_dir
out_file(transcript, tpm) ==
  JoinWith(<<transcript, IF tpm THEN <<"tpm_spectra.csv">> ELSE <<"logfc_spectra.csv">> >>, "_")

\* the try block without its except clause: FileExistsError escapes
makedirs_uncaught(exists) == IF exists THEN "raised" ELSE "created"

\* the try block of generate_save_transcript_csv: os.makedirs(out_dir) creates the
\* directory, or raises FileExistsError (an OSError) when it is there, which the
\* except clause passes over
try_makedirs(exists) == IF exists THEN "passed" ELSE "created"

\* Pool._map_async: chunksize, extra = divmod(len(iterable), len(pool) * 4); one more if extra
chunksize(n, processes) ==
  IF n = 0 THEN 0
  ELSE (n \div (processes * 4)) + (IF n % (processes * 4) # 0 THEN 1 ELSE 0)

\* Pool._get_tasks: the task indices 1..n cut into batches of `size`
RECURSIVE get_tasks(_, _, _)
get_tasks(first, n, size) ==
  IF first > n \/ size = 0 THEN <<>>
  ELSE LET last == IF first + size - 1 > n THEN n ELSE first + size - 1
       IN  <<[i \in 1..(last - first + 1) |-> first + i - 1]>> \o get_tasks(last + 1, n, size)

\* a result that is ready as soon as one batch is done
map_ready_first_done(results) ==
  results = <<>> \/ \E c \in 1..Len(results) : results[c] # "pending"

\* MapResult._set: the result is ready only once every batch is done
map_ready(results) == \A c \in 1..Len(results) : results[c] # "pending"

\* --------------------------------------------------------------- inputs
MaxPlots == 5
MaxGenes == 5
MaxCpu == 2
MaxTasks == 3

Row(vals) == [key |-> <<>>, val |-> vals]

\* the subsequences of s
RECURSIVE SubSeqs(_)
SubSeqs(s) ==
  IF s = <<>> THEN {<<>>}
  ELSE LET rest == SubSeqs(Tail(s)) IN rest \cup {<<Head(s)>> \o r : r \in rest}

\* fieldbook rows: plot (as read, possibly with a zero fraction or missing), entry, treatment
FieldbookRows ==
  <<Row(<<Num(1), Str(<<"A">>), Str(<<"WW">>)>>),
    Row(<<Rat(20, 10), Str(<<"A">>), Str(<<"WW">>)>>),
    Row(<<NaN, Str(<<"B">>), Str(<<"WW">>)>>),
    Row(<<Num(3), Str(<<"B">>), Str(<<"WL">>)>>),
    Row(<<Num(4), Str(<<"C">>), Str(<<"WW">>)>>),
    Row(<<Num(6), Str(<<"A">>), Str(<<"WL">>)>>)>>

Fieldbook(rows) == DataFrame(<<>>, <<PLOT, ENTRY, TREATMENT>>, rows)

Fieldbooks == {Fieldbook(r) : r \in SubSeqs(SubSeq(FieldbookRows, 1, MaxPlots)) \ {<<>>}}

\* the expression value of gene g in the s-th sample: a number, missing for some
Expression(g, s) == IF (g + s) % 4 = 0 THEN NaN ELSE Num((2 * g) + (3 * s))

\* gene 0 stands for a row whose identifier lacks the 'Gohir.' prefix
GeneName(g) == IF g = 0 THEN <<"Ref">> ELSE <<"Gohir.">> \o Digits(g)

\* an expression matrix: a Gene column and one column per sample
Rnaseq(tpm, genes, samples) ==
  [tpm |-> tpm,
   csv |-> DataFrame(<<>>, <<GENE>> \o samples,
             [g \in 1..Len(genes) |->
                Row(<<Str(GeneName(genes[g]))>>
                    \o [k \in 1..Len(samples) |-> Expression(genes[g], k)])])]

TpmSamples == {<< <<"A", "_", "WW">>, <<"B", "_", "WL">> >>,
               << <<"A", "_", "WW">>, <<"A", "_", "WL">>, <<"B", "_", "WW">> >>,
               << <<"C", "_", "WW">> >>}

LogfcSamples == {<< <<"A">>, <<"B">> >>, << <<"C">>, <<"A">> >>, << <<"B">> >>}

ScanName(digits) == <<"Cotton", "_", "p">> \o digits \o <<"00000.asd">>

\* the reflectance of the k-th scan at the i-th wavelength: a number, missing for some
Reflectance(k, i) == IF (k = 2 /\ i = 1) \/ (k = 3 /\ i = Len(WaveRange)) THEN NaN ELSE Num(k + (2 * i))

\* a reflectance matrix: a Lambda column and the given other columns
Spectral(names, waves) ==
  DataFrame(<<>>, <<LAMBDA_COL>> \o names,
    [i \in 1..Len(waves) |->
       Row(<<Num(waves[i])>> \o [k \in 1..Len(names) |-> Reflectance(k, i)])])

Spectrals ==
  {Spectral(<<ScanName(<<"1">>), ScanName(<<"2">>), ScanName(<<"3">>)>>, WaveRange),
   Spectral(<<ScanName(<<"1">>), ScanName(<<"1">>), ScanName(<<"6">>), ScanName(<<"0", "4">>)>>,
            WaveRange),
   Spectral(<<ScanName(<<"1">>), <<"Ref">>, ScanName(<<"3">>)>>, WaveRange),
   Spectral(<<ScanName(<<"1">>), <<"Cotton", "2">>>>, WaveRange),
   Spectral(<<ScanName(<<"1">>), ScanName(<<"3">>)>>, SubSeq(WaveRange, 1, Len(WaveRange) - 1))}

Treatments == {{Str(<<"WW">>)}, {Str(<<"WL">>)}, {Str(<<"WW">>), Str(<<"WL">>)}}

NoFrame == DataFrame(<<>>, <<>>, <<>>)

\* a pool process between batches; inside a call it holds the batch, the items left,
\* the export table, what os.path.isdir answered and how the try block ended
Idle ==
  [pc |-> "idle", batch |-> 0, todo |-> <<>>, result |-> NoFrame, isdir |-> FALSE,
   makedirs |-> "none"]

\* ---------------------------------------------------------------- state
VARIABLES
  args,             \* get_args(): rnaseq (csv, tpm), spectral, fieldbook, treatment
  env,              \* cpu_count, and the transcripts whose file cannot be written
  pc,               \* where main is
  rna_fb,           \* main's rna_fb
  spectra_df,       \* main's spectra_df
  rnaseq_spectra,   \* the global merged table
  transcript_list,  \* main's transcript_list
  taskqueue,        \* the pool's batches not yet taken
  results,          \* MapResult: per batch "pending", "ok" or "failed"
  workers,          \* the pool's processes, each inside generate_save_transcript_csv or idle
  isdir,            \* os.path.isdir(out_dir)
  files,            \* the files of out_dir: name -> table
  written,          \* the to_csv calls made: <<task, file name>>
  jd,               \* a call of join_dataframes on its own
  fx                \* a call of fix_plot_column on its own

vars == <<args, env, pc, rna_fb, spectra_df, rnaseq_spectra, transcript_list, taskqueue,
          results, workers, isdir, files, written, jd, fx>>

mainVars == <<args, env, pc, rna_fb, spectra_df, rnaseq_spectra, transcript_list, taskqueue,
              results, workers, isdir, files, written>>

Transcript(g) == <<"Gh_">> \o Digits(g)

\* inputs that vary the three tables and the treatment list, exported by one process
MergeInputs ==
  {[args |-> [rnaseq |-> r, spectral |-> sp, fieldbook |-> fb, treatment |-> t],
    env |-> [cpu_count |-> 1, unwritable |-> {}], isdir |-> FALSE] :
     r \in {Rnaseq(TRUE, <<1, 0, 2>>, x) : x \in TpmSamples}
           \cup {Rnaseq(FALSE, <<1, 0, 2>>, x) : x \in LogfcSamples},
     sp \in Spectrals, fb \in Fieldbooks, t \in Treatments}

PoolSizes ==
  {<<1, n>> : n \in 1..MaxGenes} \cup {<<c, n>> : c \in 2..MaxCpu, n \in 1..MaxTasks}

\* inputs that vary the number of transcripts, the processes, the directory and the
\* transcript (at most one) whose file cannot be written
PoolInputsFor(cpu, n) ==
  {[args |-> [rnaseq |-> Rnaseq(tpm, [g \in 1..n |-> g],
                                <<<<"A", "_", "WW">>, <<"B", "_", "WL">>>>),
              spectral |-> Spectral(<<ScanName(<<"1">>), ScanName(<<"2">>), ScanName(<<"3">>)>>,
                                    WaveRange),
              fieldbook |-> Fieldbook(SubSeq(FieldbookRows, 1, MaxPlots)),
              treatment |-> {Str(<<"WW">>), Str(<<"WL">>)}],
    env |-> [cpu_count |-> cpu, unwritable |-> u], isdir |-> d] :
     tpm \in BOOLEAN, d \in BOOLEAN, u \in {{}} \cup {{Transcript(g)} : g \in 1..n}}

PoolInputs == UNION {PoolInputsFor(cn[1], cn[2]) : cn \in PoolSizes}

NoCall == [called |-> FALSE]

Init ==
  /\ \E in \in MergeInputs \cup PoolInputs :
       /\ args = in.args
       /\ env = in.env
       /\ isdir = in.isdir
  /\ pc = "start"
  /\ rna_fb = NoFrame
  /\ spectra_df = NoFrame
  /\ rnaseq_spectra = NoFrame
  /\ transcript_list = <<>>
  /\ taskqueue = <<>>
  /\ results = <<>>
  /\ workers = [w \in 1..env.cpu_count |-> Idle]
  /\ files = <<>>
  /\ written = <<>>
  /\ jd = NoCall
  /\ fx = NoCall

\* ----------------------------------------------------------------- main
\* rna_fb = get_rnaseq_data(...)
GetRnaseqData ==
  /\ pc = "start"
  /\ rna_fb' = get_rnaseq_data(args.rnaseq, args.fieldbook)
  /\ pc' = "rnaseq"
  /\ UNCHANGED <<args, env, spectra_df, rnaseq_spectra, transcript_list, taskqueue, results,
                 workers, isdir, files, written, jd, fx>>

\* no filter at all
treatment_filter_keeps_all(df, treatment) == df

\* rna_fb = rna_fb[rna_fb['treatment'].isin(args.treatment)]
treatment_filter(df, treatment) == isin_filter(df, TREATMENT, treatment)

FilterTreatment ==
  /\ pc = "rnaseq"
  /\ rna_fb' = treatment_filter(rna_fb, args.treatment)
  /\ pc' = "filtered"
  /\ UNCHANGED <<args, env, spectra_df, rnaseq_spectra, transcript_list, taskqueue, results,
                 workers, isdir, files, written, jd, fx>>

\* spectra_df, spectra_fb, fb = get_spectral_data(...)
GetSpectralData ==
  /\ pc = "filtered"
  /\ ~fix_plot_column_raises(args.spectral)
  /\ spectra_df' = get_spectral_data(args.spectral, args.fieldbook)[1]
  /\ pc' = "spectral"
  /\ UNCHANGED <<args, env, rna_fb, rnaseq_spectra, transcript_list, taskqueue, results,
                 workers, isdir, files, written, jd, fx>>

\* fix_plot_column raises inside get_spectral_data: main ends with the exception
GetSpectralDataRaises ==
  /\ pc = "filtered"
  /\ fix_plot_column_raises(args.spectral)
  /\ pc' = "raised"
  /\ UNCHANGED <<args, env, rna_fb, spectra_df, rnaseq_spectra, transcript_list, taskqueue,
                 results, workers, isdir, files, written, jd, fx>>

\* rnaseq_spectra = join_dataframes(rna_fb, spectra_df, groupby_list=['entry', 'treatment'], stat='mean')
merge(df1, df2) == join_dataframes(df1, df2, FALSE, <<ENTRY, TREATMENT>>, "mean")

JoinRnaseqSpectra ==
  /\ pc = "spectral"
  /\ rnaseq_spectra' = merge(rna_fb, spectra_df)
  /\ pc' = "merged"
  /\ UNCHANGED <<args, env, rna_fb, spectra_df, transcript_list, taskqueue, results,
                 workers, isdir, files, written, jd, fx>>

\* transcript_list = get_transcript_list(df=rnaseq_spectra, substring='Gh_')
GetTranscriptList ==
  /\ pc = "merged"
  /\ transcript_list' = get_transcript_list(rnaseq_spectra, "Gh_")
  /\ pc' = "listed"
  /\ UNCHANGED <<args, env, rna_fb, spectra_df, rnaseq_spectra, taskqueue, results,
                 workers, isdir, files, written, jd, fx>>

\* p.map(generate_save_transcript_csv, transcript_list): the batches are queued
PoolMap ==
  /\ pc = "listed"
  /\ taskqueue' = get_tasks(1, Len(transcript_list),
                            chunksize(Len(transcript_list), env.cpu_count))
  /\ results' = [c \in 1..Len(taskqueue') |-> "pending"]
  /\ pc' = "map"
  /\ UNCHANGED <<args, env, rna_fb, spectra_df, rnaseq_spectra, transcript_list,
                 workers, isdir, files, written, jd, fx>>

\* ------------------------------------------------------------ the workers
\* a worker process takes the next batch from the task queue
TakeTask(w) ==
  /\ pc = "map"
  /\ workers[w].pc = "idle"
  /\ taskqueue # <<>>
  /\ workers' = [workers EXCEPT ![w] = [Idle EXCEPT !.pc = "compute",
                                                    !.batch = Len(results) - Len(taskqueue) + 1,
                                                    !.todo = Head(taskqueue)]]
  /\ taskqueue' = Tail(taskqueue)
  /\ UNCHANGED <<args, env, pc, rna_fb, spectra_df, rnaseq_spectra, transcript_list,
                 results, isdir, files, written, jd, fx>>

\* mapstar: an exception in one call ends the batch, whose later items are never called
Failed(w) ==
  /\ results' = [results EXCEPT ![workers[w].batch] = "failed"]
  /\ workers' = [workers EXCEPT ![w] = Idle]

\* generate_save_transcript_csv up to the isdir test: the two dropna calls, the column
\* selection (a KeyError when a column is not there) and os.path.isdir(args.out_dir)
Compute(w) ==
  /\ workers[w].pc = "compute"
  /\ LET transcript == transcript_list[Head(workers[w].todo)]
     IN  IF export_raises(rnaseq_spectra, transcript)
         THEN Failed(w)
         ELSE /\ workers' = [workers EXCEPT
                   ![w].result = export_result(rnaseq_spectra, transcript),
                   ![w].isdir = isdir,
                   ![w].pc = IF isdir THEN "write" ELSE "makedirs"]
              /\ UNCHANGED results
  /\ UNCHANGED <<args, env, pc, rna_fb, spectra_df, rnaseq_spectra, transcript_list,
                 taskqueue, isdir, files, written, jd, fx>>

\* the try block: os.makedirs(args.out_dir), except OSError: pass
MakeDirs(w) ==
  /\ workers[w].pc = "makedirs"
  /\ LET outcome == try_makedirs(isdir)
     IN  /\ isdir' = (isdir \/ outcome = "created")
         /\ IF outcome = "raised"
            THEN Failed(w)
            ELSE /\ workers' = [workers EXCEPT ![w].pc = "write", ![w].makedirs = outcome]
                 /\ UNCHANGED results
  /\ UNCHANGED <<args, env, pc, rna_fb, spectra_df, rnaseq_spectra, transcript_list,
                 taskqueue, files, written, jd, fx>>

\* the worker's next item, or the batch reported done
Succeeded(w) ==
  IF Len(workers[w].todo) > 1
  THEN /\ workers' = [workers EXCEPT ![w] = [Idle EXCEPT !.pc = "compute",
                                                         !.batch = workers[w].batch,
                                                         !.todo = Tail(workers[w].todo)]]
       /\ UNCHANGED results
  ELSE /\ workers' = [workers EXCEPT ![w] = Idle]
       /\ results' = [results EXCEPT ![workers[w].batch] = "ok"]

\* result.to_csv(out_file): an OSError when the directory is not there or the file
\* cannot be written
Write(w) ==
  /\ workers[w].pc = "write"
  /\ LET task == Head(workers[w].todo)
         name == out_file(transcript_list[task], args.rnaseq.tpm)
     IN  IF ~isdir \/ transcript_list[task] \in env.unwritable
         THEN /\ Failed(w)
              /\ UNCHANGED <<files, written>>
         ELSE /\ files' = [f \in DOMAIN files \cup {name} |->
                             IF f = name THEN workers[w].result ELSE files[f]]
              /\ written' = Append(written, <<task, name>>)
              /\ Succeeded(w)
  /\ UNCHANGED <<args, env, pc, rna_fb, spectra_df, rnaseq_spectra, transcript_list,
                 taskqueue, isdir, jd, fx>>

\* p.map returns, the pool is closed and 'Processing complete.' is printed
MapReturns ==
  /\ pc = "map"
  /\ map_ready(results)
  /\ ~\E c \in 1..Len(results) : results[c] = "failed"
  /\ pc' = "complete"
  /\ UNCHANGED <<args, env, rna_fb, spectra_df, rnaseq_spectra, transcript_list, taskqueue,
                 results, workers, isdir, files, written, jd, fx>>

\* p.map re-raises a worker's exception: main ends without printing
MapRaises ==
  /\ pc = "map"
  /\ map_ready(results)
  /\ \E c \in 1..Len(results) : results[c] = "failed"
  /\ pc' = "raised"
  /\ UNCHANGED <<args, env, rna_fb, spectra_df, rnaseq_spectra, transcript_list, taskqueue,
                 results, workers, isdir, files, written, jd, fx>>

Next ==
  \/ GetRnaseqData
  \/ FilterTreatment
  \/ GetSpectralData
  \/ GetSpectralDataRaises
  \/ JoinRnaseqSpectra
  \/ GetTranscriptList
  \/ PoolMap
  \/ \E w \in 1..env.cpu_count : TakeTask(w)
  \/ \E w \in 1..env.cpu_count : Compute(w)
  \/ \E w \in 1..env.cpu_count : MakeDirs(w)
  \/ \E w \in 1..env.cpu_count : Write(w)
  \/ MapReturns
  \/ MapRaises

Spec == Init /\ [][Next]_vars

\* ------------------------------------------------ join_dataframes on its own
MaxRows == 4

\* plot-keyed rows of a left table: entry, treatment and a measurement
LeftRows ==
  <<[key |-> <<Str(<<"1">>)>>, val |-> <<Str(<<"A">>), Str(<<"WW">>), Num(1)>>],
    [key |-> <<Str(<<"2">>)>>, val |-> <<Str(<<"A">>), Str(<<"WW">>), Num(4)>>],
    [key |-> <<Str(<<"3">>)>>, val |-> <<Str(<<"B">>), Str(<<"WW">>), NaN>>],
    [key |-> <<Str(<<"4">>)>>, val |-> <<Str(<<"A">>), Str(<<"WL">>), Num(2)>>],
    [key |-> <<Str(<<"5">>)>>, val |-> <<Str(<<"A">>), Str(<<"WW">>), Num(8)>>]>>

\* plot-keyed rows of a right table: one reading (a plot may be read twice)
RightRows ==
  <<[key |-> <<Str(<<"1">>)>>, val |-> <<Num(3)>>],
    [key |-> <<Str(<<"2">>)>>, val |-> <<NaN>>],
    [key |-> <<Str(<<"6">>)>>, val |-> <<Num(5)>>],
    [key |-> <<Str(<<"2">>)>>, val |-> <<Num(6)>>],
    [key |-> <<Str(<<"5">>)>>, val |-> <<Num(7)>>]>>

JoinCalls ==
  {[called |-> FALSE,
    df1 |-> DataFrame(<<PLOT>>, <<ENTRY, TREATMENT, <<"Gh_", "1">>>>, l),
    df2 |-> DataFrame(<<PLOT>>, << <<"3", "5", "0">> >>, r),
    convert_dtypes |-> c, groupby_list |-> g[1], stat |-> g[2], out |-> NoFrame] :
     l \in SubSeqs(SubSeq(LeftRows, 1, MaxRows)),
     r \in SubSeqs(SubSeq(RightRows, 1, MaxRows)),
     c \in BOOLEAN,
     g \in {<< <<>>, "none">>, <<<<ENTRY, TREATMENT>>, "mean">>,
            <<<<ENTRY, TREATMENT>>, "median">>}}

Parked ==
  /\ args = [rnaseq |-> Rnaseq(TRUE, <<>>, <<>>), spectral |-> NoFrame,
             fieldbook |-> NoFrame, treatment |-> {}]
  /\ env = [cpu_count |-> 1, unwritable |-> {}]
  /\ isdir = FALSE
  /\ pc = "unused"
  /\ rna_fb = NoFrame
  /\ spectra_df = NoFrame
  /\ rnaseq_spectra = NoFrame
  /\ transcript_list = <<>>
  /\ taskqueue = <<>>
  /\ results = <<>>
  /\ workers = <<Idle>>
  /\ files = <<>>
  /\ written = <<>>

InitJoin == Parked /\ jd \in JoinCalls /\ fx = NoCall

\* a call join_dataframes(df1, df2, convert_dtypes, groupby_list, stat)
JoinDataframes ==
  /\ ~jd.called
  /\ jd' = [jd EXCEPT !.called = TRUE,
                      !.out = join_dataframes(jd.df1, jd.df2, jd.convert_dtypes,
                                              jd.groupby_list, jd.stat)]
  /\ UNCHANGED <<mainVars, fx>>

NextJoin == JoinDataframes

SpecJoin == InitJoin /\ [][NextJoin]_vars

\* ------------------------------------------------ fix_plot_column on its own
MaxCols == 3

\* column names of a reflectance file: scans, a column that is no scan, and a scan
\* name without the '_' before its plot number
ScanColumns == {ScanName(<<"1">>), ScanName(<<"2">>), <<"Ref">>, <<"Cotton", "3">>}

RECURSIVE SeqsUpTo(_, _)
SeqsUpTo(S, n) ==
  IF n = 0 THEN {<<>>}
  ELSE LET shorter == SeqsUpTo(S, n - 1)
       IN  shorter \cup {Append(q, x) : q \in {t \in shorter : Len(t) = n - 1}, x \in S}

\* headers with exactly one Lambda column, anywhere, and up to MaxCols other columns
Headers ==
  UNION {{SubSeq(h, 1, k) \o <<LAMBDA_COL>> \o SubSeq(h, k + 1, Len(h)) : k \in 0..Len(h)} :
           h \in SeqsUpTo(ScanColumns, MaxCols)}

\* a reflectance table under a header: the j-th column holds 100 j + the wavelength
Reflectances(header) ==
  DataFrame(<<>>, header,
    [i \in 1..Len(WaveRange) |->
       Row([j \in 1..Len(header) |->
              IF header[j] = LAMBDA_COL THEN Num(WaveRange[i])
              ELSE Num((100 * j) + i)])])

InitFix ==
  /\ Parked
  /\ jd = NoCall
  /\ \E h \in Headers : fx = [called |-> FALSE, df |-> Reflectances(h),
                             raised |-> FALSE, out |-> NoFrame]

\* a call fix_plot_column(df) that returns
FixPlotColumn ==
  /\ ~fx.called
  /\ ~fix_plot_column_raises(fx.df)
  /\ fx' = [fx EXCEPT !.called = TRUE, !.out = fix_plot_column(fx.df)]
  /\ UNCHANGED <<mainVars, jd>>

\* a call fix_plot_column(df) that raises
FixPlotColumnRaises ==
  /\ ~fx.called
  /\ fix_plot_column_raises(fx.df)
  /\ fx' = [fx EXCEPT !.called = TRUE, !.raised = TRUE]
  /\ UNCHANGED <<mainVars, jd>>

NextFix == FixPlotColumn \/ FixPlotColumnRaises

SpecFix == InitFix /\ [][NextFix]_vars

\* ---------------------------------------------------------------- properties

\* ---------------------------------------------------------------- C9
NonMatching(df) == PositionsFrom([j \in 1..Len(df.columns) |-> ~Contains(df.columns[j], "Cotton")], 1)

\* the plot number written in a scan name: what follows the first '_', without the
\* 'p' before the digits and the instrument suffix after them
OwnPlotNumber(name) ==
  SelectSeq(Split(name, "_")[2], LAMBDA x : x \notin {"p", "00000.asd"})

\* the table C9 describes: Lambda first, then the scan columns under their plot numbers
DiscardedAndRelabelled(df) ==
  LET keep == <<FirstPos(df.columns, LAMBDA_COL)>> \o CottonCols(df)
  IN  DataFrame(df.index,
                [k \in 1..Len(keep) |->
                   IF k = 1 THEN LAMBDA_COL ELSE OwnPlotNumber(df.columns[keep[k]])],
                [i \in 1..Len(df.rows) |->
                   [key |-> df.rows[i].key,
                    val |-> [k \in 1..Len(keep) |-> df.rows[i].val[keep[k]]]]])

\* every name with the marker has a '_' before its plot number
WellFormed(df) ==
  \A j \in 1..Len(df.columns) :
    Contains(df.columns[j], "Cotton") => Contains(df.columns[j], "_")

\* C9 as stated: for every reflectance table (whose scan names hold a plot number),
\* fix_plot_column returns the table without its non-matching columns, Lambda first
\* and every scan column relabelled with the plot number of its own name.
C9_DiscardsNonMatching ==
  (fx.called /\ WellFormed(fx.df)) =>
    (~fx.raised /\ fx.out = DiscardedAndRelabelled(fx.df))

\* C9 amended: fix_plot_column discards and moves no column; it relabels the columns by
\* position, the first as Lambda. It raises exactly when the columns without the marker
\* are not exactly one or a marked name has no '_'; when the first column is the only
\* one without the marker, every scan column gets the plot number of its own name.
C9_RelabelsByPosition ==
  fx.called =>
    LET df == fx.df
    IN  /\ fx.raised <=> (Len(NonMatching(df)) # 1 \/ ~WellFormed(df))
        /\ ~fx.raised =>
             /\ fx.out.rows = df.rows
             /\ Len(fx.out.columns) = Len(df.columns)
             /\ fx.out.columns[1] = LAMBDA_COL
             /\ NonMatching(df) = <<1>> =>
                  \A j \in 2..Len(df.columns) :
                    fx.out.columns[j] = OwnPlotNumber(df.columns[j])

\* a table with Lambda first and two scans has been relabelled
C9_Witness ==
  /\ fx.called
  /\ ~fx.raised
  /\ NonMatching(fx.df) = <<1>>
  /\ Len(fx.out.columns) >= 3
  /\ fx.out.columns[2] # fx.out.columns[3]

\* ---------------------------------------------------------------- C2
Keys(df) == {df.rows[i].key : i \in 1..Len(df.rows)}

\* the index keys of a joined result, whose index reset_index has made its first column
JoinedKeys(out) == {<<out.rows[i].val[1]>> : i \in 1..Len(out.rows)}

PlainJoin == jd.called /\ jd.groupby_list = <<>>

\* C2 as stated: a key is in the result of join_dataframes(df1, df2) if and only if
\* it is in both df1 and df2.
C2_InnerJoinKeys ==
  PlainJoin => JoinedKeys(jd.out) = Keys(jd.df1) \cap Keys(jd.df2)

\* C2 amended: join_dataframes is a left join on the shared index: a key is in the
\* result if and only if it is in df1; a df1 row with no df2 match is kept, with
\* missing values in df2's columns, and a key that only df2 has is excluded.
C2_LeftJoinKeys ==
  PlainJoin =>
    LET n1 == Len(jd.df1.columns) + 1
        n2 == Len(jd.df2.columns)
    IN  /\ JoinedKeys(jd.out) = Keys(jd.df1)
        /\ \A i \in 1..Len(jd.out.rows) :
             LET r == jd.out.rows[i]
                 right == [j \in 1..n2 |-> r.val[n1 + j]]
             IN  IF <<r.val[1]>> \in Keys(jd.df2)
                 THEN \E m \in 1..Len(jd.df2.rows) :
                        jd.df2.rows[m].key = <<r.val[1]>> /\ jd.df2.rows[m].val = right
                 ELSE \A j \in 1..n2 : IsNa(right[j])

\* a join in which each table has a key the other lacks, and they share one
C2_Witness ==
  /\ PlainJoin
  /\ Keys(jd.df1) \ Keys(jd.df2) # {}
  /\ Keys(jd.df2) \ Keys(jd.df1) # {}
  /\ Keys(jd.df1) \cap Keys(jd.df2) # {}

\* ------------------------------------------------------- the merged table
\* main has assigned rnaseq_spectra
Finalized == rnaseq_spectra.index # <<>>

\* a worker process is inside generate_save_transcript_csv
Active(w) == workers[w].pc # "idle"

\* the plot-level rows the final aggregation groups
PlotLevel == reset_index(join(rna_fb, spectra_df))

PairOf(df, r) == <<Cell(df, r, ENTRY), Cell(df, r, TREATMENT)>>

\* ---------------------------------------------------------------- C3
\* the fieldbook rows that have a plot
FieldbookPlots == dropna(args.fieldbook, <<PLOT>>)

\* the pair is the (entry, treatment) of a fieldbook row
HasFieldbookRow(pair) ==
  \E i \in 1..Len(FieldbookPlots.rows) : PairOf(FieldbookPlots, FieldbookPlots.rows[i]) = pair

\* the sample columns of the expression matrix
Samples == Tail(args.rnaseq.csv.columns)

\* the pair has an expression sample: a column entry_treatment of a TPM matrix, a
\* column entry of a log-fold-change matrix
HasSample(pair) ==
  \E k \in 1..Len(Samples) :
    IF args.rnaseq.tpm THEN Samples[k] = pair[1].str \o <<"_">> \o pair[2].str
    ELSE Samples[k] = pair[1].str

\* the pair has a scan of one of its plots
HasScan(pair) ==
  \E i \in 1..Len(FieldbookPlots.rows) :
    /\ PairOf(FieldbookPlots, FieldbookPlots.rows[i]) = pair
    /\ \E j \in 1..Len(args.spectral.columns) :
         /\ Contains(args.spectral.columns[j], "Cotton")
         /\ LET plot == Cell(FieldbookPlots, FieldbookPlots.rows[i], PLOT)
            IN  OwnPlotNumber(args.spectral.columns[j]) = Digits(plot.num \div plot.den)

MergedPairs == {rnaseq_spectra.rows[n].key : n \in 1..Len(rnaseq_spectra.rows)}

\* C3 as stated: every (entry, treatment) key of the aggregated merged table has a
\* fieldbook row, an expression sample and a spectral scan of one of its plots.
C3_KeysInAllThreeSources ==
  pc = "merged" => \A pair \in MergedPairs :
                 HasFieldbookRow(pair) /\ HasSample(pair) /\ HasScan(pair)

\* C3 amended: every (entry, treatment) key of the aggregated merged table is the key
\* of a fieldbook row that has a plot and a requested treatment; it need not have an
\* expression sample or a spectral scan.
C3_KeysInFieldbook ==
  pc = "merged" => \A pair \in MergedPairs : HasFieldbookRow(pair) /\ pair[2] \in args.treatment

\* a merged table with a key in all three sources, one without a sample and one
\* without a scan
C3_Witness ==
  /\ pc = "merged"
  /\ \E pair \in MergedPairs : HasSample(pair) /\ HasScan(pair)
  /\ \E pair \in MergedPairs : ~HasSample(pair)
  /\ \E pair \in MergedPairs : ~HasScan(pair)

\* ---------------------------------------------------------------- C4
\* the rows of the plot-level table pl with the pair
Group(pl, pair) == SelectSeq(pl.rows, LAMBDA r : PairOf(pl, r) = pair)

\* the values the rows g of pl have in a column
Present(pl, g, column) ==
  SelectSeq([i \in 1..Len(g) |-> Cell(pl, g[i], column)], LAMBDA v : ~IsNa(v))

RECURSIVE Denominators(_)
Denominators(vs) == IF vs = <<>> THEN 1 ELSE Head(vs).den * Denominators(Tail(vs))

\* the sum of the values, times d
RECURSIVE ScaledSum(_, _)
ScaledSum(vs, d) ==
  IF vs = <<>> THEN 0 ELSE ((Head(vs).num * d) \div Head(vs).den) + ScaledSum(Tail(vs), d)

\* v is the arithmetic mean of the values
IsMeanOf(v, vs) ==
  /\ v.kind = "num"
  /\ v.num * Len(vs) * Denominators(vs) = v.den * ScaledSum(vs, Denominators(vs))

\* the aggregated table agg is the per-pair mean of the plot-level table pl
IsPairMean(agg, pl) ==
  LET pairs == {PairOf(pl, pl.rows[i]) : i \in 1..Len(pl.rows)}
  IN  /\ {agg.rows[n].key : n \in 1..Len(agg.rows)} = pairs
      /\ Len(agg.rows) = Cardinality(pairs)
      /\ \A j \in 1..Len(pl.columns) :
           (/\ \A i \in 1..Len(pl.rows) : pl.rows[i].val[j].kind # "str"
            /\ pl.rows # <<>>)
           => Contains(agg.columns, pl.columns[j])
      /\ \A n \in 1..Len(agg.rows) :
           LET g == Group(pl, agg.rows[n].key)
           IN  \A c \in 1..Len(agg.columns) :
                 LET v == agg.rows[n].val[c]
                     vs == Present(pl, g, agg.columns[c])
                 IN  /\ IF vs = <<>> THEN IsNa(v) ELSE IsMeanOf(v, vs)
                     /\ Len(g) = 1 => v = Cell(pl, g[1], agg.columns[c])

\* C4: the aggregated table has exactly one row per distinct (entry, treatment) pair
\* of the plot-level rows; every column of it is, for each pair, the arithmetic mean
\* of the values the pair's rows have in that column (missing when they have none),
\* and the row's own value when the pair has one row.
C4_OneRowPerPairMean == pc = "merged" => IsPairMean(rnaseq_spectra, PlotLevel)

\* an aggregation with a pair of one plot and a pair of two plots whose values differ
C4_Witness ==
  /\ pc = "merged"
  /\ LET pl == PlotLevel
     IN  /\ \E pair \in MergedPairs : Len(Group(pl, pair)) = 1
         /\ \E pair \in MergedPairs, c \in 1..Len(rnaseq_spectra.columns) :
              LET vs == Present(pl, Group(pl, pair), rnaseq_spectra.columns[c])
              IN  Len(vs) >= 2 /\ vs[1] # vs[2]

\* ---------------------------------------------------------------- C5
\* the merged rows that have the transcript and both boundary wavelengths
Complete(transcript) ==
  SelectSeq(rnaseq_spectra.rows,
    LAMBDA r : /\ ~IsNa(Cell(rnaseq_spectra, r, transcript))
               /\ ~IsNa(Cell(rnaseq_spectra, r, <<"3", "5", "0">>))
               /\ ~IsNa(Cell(rnaseq_spectra, r, <<"2", "5", "0", "0">>)))

\* C5: the rows of every export written for a transcript t are exactly the merged rows
\* in which t, wavelength 350 and wavelength 2500 are all present, with their values.
C5_ExportRowsComplete ==
  \A k \in 1..Len(written) :
    LET t == transcript_list[written[k][1]]
        export == files[written[k][2]]
        rows == Complete(t)
    IN  /\ Len(export.rows) = Len(rows)
        /\ \A i \in 1..Len(rows) :
             /\ export.rows[i].key = rows[i].key
             /\ \A c \in 1..Len(export.columns) :
                  export.rows[i].val[c] = Cell(rnaseq_spectra, rows[i], export.columns[c])

\* an export was written that keeps a merged row and leaves out a row that has the
\* transcript but lacks wavelength 2500, and a row that lacks the transcript
C5_Witness ==
  \E k \in 1..Len(written) :
    LET t == transcript_list[written[k][1]]
    IN  /\ files[written[k][2]].rows # <<>>
        /\ \E n \in 1..Len(rnaseq_spectra.rows) :
             /\ ~IsNa(Cell(rnaseq_spectra, rnaseq_spectra.rows[n], t))
             /\ IsNa(Cell(rnaseq_spectra, rnaseq_spectra.rows[n], <<"2", "5", "0", "0">>))
        /\ \E n \in 1..Len(rnaseq_spectra.rows) :
             IsNa(Cell(rnaseq_spectra, rnaseq_spectra.rows[n], t))

\* ---------------------------------------------------------------- C6
\* the table get_rnaseq_data returned, before the filter
Unfiltered == get_rnaseq_data(args.rnaseq, args.fieldbook)

Requested(df, r) == Cell(df, r, TREATMENT) \in args.treatment

\* kept holds exactly the rows of all whose treatment is requested
IsRequestedPart(kept, all) ==
  /\ \A i \in 1..Len(kept.rows) : Requested(kept, kept.rows[i])
  /\ \A i \in 1..Len(all.rows) :
       Requested(all, all.rows[i]) => \E m \in 1..Len(kept.rows) : kept.rows[m] = all.rows[i]
  /\ \A m \in 1..Len(kept.rows) : \E i \in 1..Len(all.rows) : kept.rows[m] = all.rows[i]

\* C6: the filter leaves in rna_fb exactly the rows of the unfiltered table whose
\* treatment is requested, before the join with the spectral table; no key of the
\* aggregated table and no row of an export has another treatment.
C6_TreatmentFilter ==
  /\ pc = "filtered" => IsRequestedPart(rna_fb, Unfiltered)
  /\ pc \in {"spectral", "merged"} => \A i \in 1..Len(rna_fb.rows) : Requested(rna_fb, rna_fb.rows[i])
  /\ Finalized => \A pair \in MergedPairs : pair[2] \in args.treatment
  /\ \A f \in DOMAIN files : \A i \in 1..Len(files[f].rows) :
       files[f].rows[i].key[2] \in args.treatment

\* the unfiltered table had a row to drop and a row to keep, and an export with rows
\* was written
C6_Witness ==
  /\ pc = "map"
  /\ \E f \in DOMAIN files : files[f].rows # <<>>
  /\ \E i \in 1..Len(FieldbookPlots.rows) :
       ~Requested(FieldbookPlots, FieldbookPlots.rows[i])
  /\ \E i \in 1..Len(rna_fb.rows) : Requested(rna_fb, rna_fb.rows[i])

\* ---------------------------------------------------------------- C7
\* the transcript columns of the merged table, by position
TranscriptColumns ==
  {j \in 1..Len(rnaseq_spectra.columns) : Contains(rnaseq_spectra.columns[j], "Gh_")}

\* the artifact name of a transcript: the transcript and the family of the matrix
ArtifactName(transcript) ==
  transcript \o <<"_">> \o
    (IF args.rnaseq.tpm THEN <<"tpm_spectra.csv">> ELSE <<"logfc_spectra.csv">>)

\* C7: after a run in which no worker failed, every transcript column has its
\* artifact, named by the transcript and the family alone, there are as many artifacts
\* as transcript columns, and no artifact was written by two calls.
C7_OneArtifactPerTranscript ==
  pc = "complete" =>
    /\ DOMAIN files = {ArtifactName(rnaseq_spectra.columns[j]) : j \in TranscriptColumns}
    /\ Cardinality(DOMAIN files) = Cardinality(TranscriptColumns)
    /\ \A a, b \in 1..Len(written) : a # b => written[a][2] # written[b][2]
    /\ \A a \in 1..Len(written) :
         written[a][2] = ArtifactName(transcript_list[written[a][1]])

\* a run of two processes over several transcripts has completed
C7_Witness ==
  /\ pc = "complete"
  /\ env.cpu_count >= 2
  /\ Cardinality(TranscriptColumns) >= 3

\* ---------------------------------------------------------------- C8
\* C8: a worker is inside a call, or an artifact is written, only once the aggregated
\* merged table is final; 'Processing complete.' is printed only when every batch is
\* done and every worker has finished.
C8_StageOrdering ==
  /\ ((\E w \in 1..env.cpu_count : Active(w)) \/ written # <<>> \/ taskqueue # <<>>)
       => (/\ pc \in {"map", "complete", "raised"}
           /\ Finalized
           /\ rnaseq_spectra = merge(rna_fb, spectra_df))
  /\ pc = "complete"
       => (/\ \A w \in 1..env.cpu_count : ~Active(w)
           /\ taskqueue = <<>>
           /\ \A c \in 1..Len(results) : results[c] = "ok"
           /\ Len(written) = Len(transcript_list))

\* a run of two processes that wrote several artifacts has printed completion
C8_Witness ==
  /\ pc = "complete"
  /\ env.cpu_count >= 2
  /\ Len(written) >= 2

\* ---------------------------------------------------------------- C10
\* the transcripts of a batch
BatchOf(c) == get_tasks(1, Len(transcript_list),
                        chunksize(Len(transcript_list), env.cpu_count))[c]

\* C10: no call fails in its check-then-create of the output directory: a batch fails
\* only by a missing column or an unwritable file, and the directory exists whenever
\* a worker is at its write.
C10_DirectoryRaceTolerated ==
  /\ \A w \in 1..env.cpu_count : workers[w].pc = "write" => isdir
  /\ \A c \in 1..Len(results) :
       results[c] = "failed"
         => \E k \in 1..Len(BatchOf(c)) :
              \/ transcript_list[BatchOf(c)[k]] \in env.unwritable
              \/ export_raises(rnaseq_spectra, transcript_list[BatchOf(c)[k]])

\* a worker found no directory, lost the race to create it, and is at its write
C10_Witness ==
  \E w \in 1..env.cpu_count :
    /\ workers[w].pc = "write"
    /\ ~workers[w].isdir
    /\ workers[w].makedirs = "passed"

\* ---------------------------------------------------------------- C1
\* C1 as stated: when the map is over, every transcript of the list whose own export
\* did not raise has its artifact written.
C1_SiblingsUnaffected ==
  (pc \in {"complete", "raised"} /\ transcript_list # <<>>) =>
    \A k \in 1..Len(transcript_list) :
      (/\ transcript_list[k] \notin env.unwritable
       /\ ~export_raises(rnaseq_spectra, transcript_list[k]))
        => ArtifactName(transcript_list[k]) \in DOMAIN files

====
